---- MODULE Spec2Model ----
(***************************************************************************)
(* Content aggregation, report cache and citation normalisation of the     *)
(* research assistant (src/app.py).                                        *)
(*                                                                         *)
(* The module holds several state machines over one set of variables:      *)
(*   Spec          scrape_urls, one loop iteration per step                *)
(*   SpecStore     add_to_report_store, calls executed one at a time       *)
(*   SpecStoreConc add_to_report_store, request threads interleaved        *)
(*   SpecCite      the citation passes applied to bounded texts            *)
(*   SpecPipe      one /process request, then downloads of its report      *)
(*   SpecDocx      generate_docx and generate_pdf on bounded reports       *)
(*   SpecExtract   scrape_url on one URL                                   *)
(* A machine leaves the variables of the others at their initial values.   *)
(***************************************************************************)
EXTENDS Integers, Sequences, FiniteSets, TLC

VARIABLES
    \* ---- scrape_urls (src/app.py:173-184) ----
    urls,                  \* the argument: a sequence of URLs
    idx,                   \* position of the for loop (1-based; enumerate's i + 1)
    scraped_data,          \* list of [id, url, text]; text is kept by its length
    total_content_length,
    urls_attempted,
    scrape_calls,          \* history: the URLs scrape_url was called with, in order
    spc,                   \* "loop" | "done" (returned)
    \* ---- report cache (src/app.py:46-67) ----
    report_store,          \* dict: set of stored report ids with their data
    report_order,          \* list of report ids
    next_id,               \* uuid4 stand-in: ids handed out so far
    inserted,              \* history: ids in the order their store step ran
    last_evicted,          \* history: ids deleted by the last completed step
    threads,               \* per request thread: position inside add_to_report_store
    \* ---- citation passes (src/app.py:194-228, 459-474) ----
    text,                  \* the model's raw answer, a sequence of tokens
    cpc,                   \* "raw" | "pre" | "html" | "fn" | "idle"
    answer_raw,            \* generated_text_processed (line 459)
    answer_html,           \* html_answer (lines 463-474)
    fn_html,               \* result of process_citation_markers_in_html
    \* ---- one /process request and its downloads (src/app.py:666-716) ----
    ppc,                   \* "start" | "scraped" | "synth" | "stored" | "error" | "idle"
    query,                 \* data.get('query', ''), a sequence of tokens
    api_key,               \* whether GEMINI_API_KEY is configured
    research_depth,
    model_calls,           \* history: what each model.generate_content call did
    response,              \* the JSON response of the request
    context_labels,        \* format_context_for_llm: the "Source [n] (url)" headers
    sources_final,         \* line 689
    docx_sources,          \* generate_docx: the entries under the sources heading
    pdf_sources,           \* generate_pdf: the entries of the source list
    \* ---- generate_docx on a report (src/app.py:496-569) ----
    report_data,           \* the report handed to generate_docx / generate_pdf
    dpc,                   \* "start" | "walk" | "docx" | "pdf" | "idle"
    doc_line,              \* number of the next line of the answer (1-based)
    current_paragraph,     \* 0 for None, else the position of the open paragraph
    docx_body,             \* the blocks the loop added to the document
    \* ---- scrape_url (src/app.py:103-170) ----
    page,                  \* what the URL serves and what the libraries return
    epc,                   \* "start" | "done" | "idle"
    scrape_result          \* what scrape_url returned

scrapeVars == <<urls, idx, scraped_data, total_content_length, urls_attempted,
                scrape_calls, spc>>
storeVars  == <<report_store, report_order, next_id, inserted, last_evicted, threads>>
citeVars   == <<text, cpc, answer_raw, answer_html, fn_html>>
pipeVars   == <<ppc, query, api_key, research_depth, model_calls, response,
                context_labels, sources_final, docx_sources, pdf_sources>>
docxVars   == <<report_data, dpc, doc_line, current_paragraph, docx_body>>
extractVars == <<page, epc, scrape_result>>
vars       == <<scrapeVars, storeVars, citeVars, pipeVars, docxVars, extractVars>>

(***************************************************************************)
(* Program constants                                                       *)
(***************************************************************************)
MAX_CONTENT_LENGTH_PER_SITE == 15000
MAX_TOTAL_CONTENT_LENGTH == 200000
REPORT_STORE_MAX_ITEMS == 100
SOURCE_PREVIEW_LENGTH == 300
PAYLOAD_LIMIT == 7000000

(***************************************************************************)
(* Bounds of the model                                                     *)
(***************************************************************************)
MaxUrls == 15          \* longest URL list handed to scrape_urls
MaxPieces == 3         \* pieces an answer text is put together from (SpecCite)
MaxPipeUrls == 2       \* longest URL list of a /process request (SpecPipe)
MaxPipePieces == 2     \* pieces of the model's answer in a request (SpecPipe)
MaxReports == 103      \* reports inserted one at a time (SpecStore)
MaxConcInserts == 3    \* insertions started by the interleaved threads (SpecStoreConc)
NumThreads == 2        \* request threads inside add_to_report_store at once
MaxLines == 3          \* lines of the answer handed to generate_docx (SpecDocx)

(***************************************************************************)
(* scrape_urls                                                             *)
(***************************************************************************)

\* URL lists: n URLs that repeat with period k (k = 1: one URL n times; k > n:
\* all distinct).
UrlPeriods == {1, 2, MaxUrls + 1}
UrlLists == { [j \in 1..n |-> ((j - 1) % k) + 1] : n \in 0..MaxUrls, k \in UrlPeriods }

\* What scrape_url can return for one call: None or "" (length 0, falsy), or a
\* text of 1..MAX_CONTENT_LENGTH_PER_SITE characters (both strategies slice
\* [:MAX_CONTENT_LENGTH_PER_SITE]).  The model draws the two extremes.
ScrapeResults == {0, MAX_CONTENT_LENGTH_PER_SITE}

\* id of a new source: len(scraped_data) at the time of the append (line 181).
NewIdByPosition(sd, i) == i - 1
NewId(sd, i) == Len(sd)

InitScrape ==
    /\ urls \in UrlLists
    /\ idx = 1
    /\ scraped_data = <<>>
    /\ total_content_length = 0
    /\ urls_attempted = {}
    /\ scrape_calls = <<>>
    /\ spc = "loop"

\* The loop's locals as one value.
LoopState(sd, total, attempted, calls, brk) ==
    [sd |-> sd, total |-> total, attempted |-> attempted, calls |-> calls, brk |-> brk]

\* The body of the for loop (lines 178-182) for the URL at position i, where
\* scrape_url, if it is called, returns a text of length content (0: nothing).
\* Line 178, `if url in urls_attempted: continue; urls_attempted.add(url)`:
\* both statements after the colon form the body of the if, so the add sits
\* behind the continue and is never executed: the set stays as it is.
IterBody(st, url, i, content) ==
    IF url \in st.attempted THEN st
    ELSE IF st.total >= MAX_TOTAL_CONTENT_LENGTH THEN [st EXCEPT !.brk = TRUE]
    ELSE IF content > 0
         THEN [st EXCEPT !.sd = Append(st.sd, [id |-> NewId(st.sd, i), url |-> url,
                                               text |-> content]),
                         !.total = st.total + content,
                         !.calls = Append(st.calls, url)]
         ELSE [st EXCEPT !.calls = Append(st.calls, url)]

CurrentLoop == LoopState(scraped_data, total_content_length, urls_attempted,
                         scrape_calls, FALSE)

\* One iteration of the for loop that does not break (lines 177-182).
ScrapeIter ==
    /\ spc = "loop"
    /\ idx <= Len(urls)
    /\ \E content \in ScrapeResults :
          LET st == IterBody(CurrentLoop, urls[idx], idx, content) IN
          /\ ~st.brk
          /\ scraped_data' = st.sd
          /\ total_content_length' = st.total
          /\ urls_attempted' = st.attempted
          /\ scrape_calls' = st.calls
    /\ idx' = idx + 1
    /\ UNCHANGED <<urls, spc>>
    /\ UNCHANGED <<storeVars, citeVars, pipeVars, docxVars, extractVars>>

\* Line 179: the running total reached the cap: break, then return (183-184).
ScrapeBreak ==
    /\ spc = "loop"
    /\ idx <= Len(urls)
    /\ IterBody(CurrentLoop, urls[idx], idx, 0).brk
    /\ spc' = "done"
    /\ UNCHANGED <<urls, idx, scraped_data, total_content_length, urls_attempted,
                   scrape_calls>>
    /\ UNCHANGED <<storeVars, citeVars, pipeVars, docxVars, extractVars>>

\* The loop ran out of URLs: return scraped_data (lines 183-184).
ScrapeReturn ==
    /\ spc = "loop"
    /\ idx > Len(urls)
    /\ spc' = "done"
    /\ UNCHANGED <<urls, idx, scraped_data, total_content_length, urls_attempted,
                   scrape_calls>>
    /\ UNCHANGED <<storeVars, citeVars, pipeVars, docxVars, extractVars>>

(***************************************************************************)
(* add_to_report_store                                                     *)
(***************************************************************************)

\* report_full_data (line 693); the query is left out.
Report(raw, html, sources, depth) ==
    [answer_raw |-> raw, answer_html |-> html, sources |-> sources, research_depth |-> depth]

\* The data stored under an id where only the cache is modelled.
ReportData(rid) == Report(<<>>, <<>>, <<>>, IF rid % 2 = 0 THEN "deep" ELSE "quick")

\* dict operations
DictSet(d, k, v) == [x \in DOMAIN d \cup {k} |-> IF x = k THEN v ELSE d[x]]
DictDel(d, k) == [x \in DOMAIN d \ {k} |-> d[x]]

\* Line 57: the eviction branch is taken when the store is full.
StoreIsFull(d) == Cardinality(DOMAIN d) >= REPORT_STORE_MAX_ITEMS

\* Line 59: report_order.pop(0) takes the first id of the list.
PopLastIndex(order) == Len(order)
PopIndex(order) == 1

RemoveAt(s, i) == [j \in 1..(Len(s) - 1) |-> IF j < i THEN s[j] ELSE s[j + 1]]

Threads == 1..NumThreads
IdleThread == [pc |-> "idle", rid |-> 0, oldest |-> 0]

\* The cache after n insertions made one at a time into the empty cache.
InitStoreWith(n) ==
    /\ report_store = [r \in 1..n |-> ReportData(r)]
    /\ report_order = [j \in 1..n |-> j]
    /\ next_id = n
    /\ inserted = [j \in 1..n |-> j]
    /\ last_evicted = {}
    /\ threads = [t \in Threads |-> IdleThread]

\* add_to_report_store(report_id, data) run without interruption (lines 57-67):
\* the cache it leaves, as [store, order].
add_to_report_store_twice(store, order, rid, data) ==
    [store |-> DictSet(store, rid, data), order |-> Append(Append(order, rid), rid)]
add_to_report_store(store, order, rid, data) ==
    LET evict == StoreIsFull(store) /\ order # <<>>
        oldest_id == order[PopIndex(order)]
        order1 == IF evict THEN RemoveAt(order, PopIndex(order)) ELSE order
        store1 == IF evict /\ oldest_id \in DOMAIN store THEN DictDel(store, oldest_id)
                  ELSE store
    IN [store |-> DictSet(store1, rid, data), order |-> Append(order1, rid)]

\* One call with a fresh uuid4 (line 691), no other call running.
AddToReportStore ==
    /\ next_id < MaxReports
    /\ LET rid == next_id + 1
           r == add_to_report_store(report_store, report_order, rid, ReportData(rid))
       IN /\ report_store' = r.store
          /\ report_order' = r.order
          /\ next_id' = rid
          /\ inserted' = Append(inserted, rid)
          /\ last_evicted' = DOMAIN report_store \ DOMAIN r.store
    /\ UNCHANGED threads
    /\ UNCHANGED <<scrapeVars, citeVars, pipeVars, docxVars, extractVars>>

\* ---- the same function, one step per statement, for interleaved threads ----

\* Reports already in the cache when the interleaved requests arrive.
ConcPrefill == REPORT_STORE_MAX_ITEMS - 1

\* process_query_route line 691-694: a request draws its id and enters the call.
ThreadCall(t) ==
    /\ threads[t].pc = "idle"
    /\ next_id < ConcPrefill + MaxConcInserts
    /\ next_id' = next_id + 1
    /\ threads' = [threads EXCEPT ![t] = [pc |-> "check", rid |-> next_id + 1, oldest |-> 0]]
    /\ UNCHANGED <<report_store, report_order, inserted, last_evicted>>
    /\ UNCHANGED <<scrapeVars, citeVars, pipeVars, docxVars, extractVars>>

\* Line 57: if len(report_store) >= REPORT_STORE_MAX_ITEMS
ThreadCheck(t) ==
    /\ threads[t].pc = "check"
    /\ threads' = [threads EXCEPT ![t].pc =
                      IF StoreIsFull(report_store) THEN "pop" ELSE "store"]
    /\ UNCHANGED <<report_store, report_order, next_id, inserted, last_evicted>>
    /\ UNCHANGED <<scrapeVars, citeVars, pipeVars, docxVars, extractVars>>

\* Lines 58-59, 63-64: oldest_id = report_order.pop(0); IndexError is passed over.
ThreadPop(t) ==
    /\ threads[t].pc = "pop"
    /\ IF report_order = <<>>
       THEN /\ threads' = [threads EXCEPT ![t].pc = "store"]
            /\ UNCHANGED report_order
       ELSE /\ threads' = [threads EXCEPT ![t].pc = "del",
                                          ![t].oldest = report_order[PopIndex(report_order)]]
            /\ report_order' = RemoveAt(report_order, PopIndex(report_order))
    /\ UNCHANGED <<report_store, next_id, inserted, last_evicted>>
    /\ UNCHANGED <<scrapeVars, citeVars, pipeVars, docxVars, extractVars>>

\* Lines 60-61: if oldest_id in report_store: del report_store[oldest_id]
\* (test and delete in one step: pop hands every id of the list to one thread
\* only, so no other thread deletes this id between the two).
ThreadDel(t) ==
    /\ threads[t].pc = "del"
    /\ IF threads[t].oldest \in DOMAIN report_store
       THEN /\ report_store' = DictDel(report_store, threads[t].oldest)
            /\ last_evicted' = {threads[t].oldest}
       ELSE UNCHANGED <<report_store, last_evicted>>
    /\ threads' = [threads EXCEPT ![t].pc = "store"]
    /\ UNCHANGED <<report_order, next_id, inserted>>
    /\ UNCHANGED <<scrapeVars, citeVars, pipeVars, docxVars, extractVars>>

\* Line 66: report_store[report_id] = data
ThreadStore(t) ==
    /\ threads[t].pc = "store"
    /\ report_store' = DictSet(report_store, threads[t].rid, ReportData(threads[t].rid))
    /\ inserted' = Append(inserted, threads[t].rid)
    /\ threads' = [threads EXCEPT ![t].pc = "append"]
    /\ UNCHANGED <<report_order, next_id, last_evicted>>
    /\ UNCHANGED <<scrapeVars, citeVars, pipeVars, docxVars, extractVars>>

\* Line 67: report_order.append(report_id), and the function returns.
ThreadAppend(t) ==
    /\ threads[t].pc = "append"
    /\ report_order' = Append(report_order, threads[t].rid)
    /\ threads' = [threads EXCEPT ![t] = IdleThread]
    /\ UNCHANGED <<report_store, next_id, inserted, last_evicted>>
    /\ UNCHANGED <<scrapeVars, citeVars, pipeVars, docxVars, extractVars>>

(***************************************************************************)
(* Texts.  A text is a sequence of tokens: a token is one character, or    *)
(* one markup tag kept whole (no pattern of the passes matches inside a    *)
(* tag: the tags hold no bracket and no run of two whitespace characters). *)
(***************************************************************************)

Ch(c) == [k |-> "ch", c |-> c, n |-> 0, label |-> <<>>]

\* <sup><a href='#' class='citation-marker' data-citation-index='{n}'
\*  aria-label='Citation {label}'>        (lines 221, 469)
AnchorOpen(n, label) == [k |-> "open", c |-> "", n |-> n, label |-> label]
\* </a></sup>
AnchorClose == [k |-> "close", c |-> "", n |-> 0, label |-> <<>>]
\* <p> and </p> of the Markdown renderer
ParOpen == [k |-> "p", c |-> "", n |-> 0, label |-> <<>>]
ParClose == [k |-> "/p", c |-> "", n |-> 0, label |-> <<>>]

Str(cs) == [j \in 1..Len(cs) |-> Ch(cs[j])]

Digits == {"0", "1", "2", "3", "4", "5", "6", "7", "8", "9"}
IsChar(tok, c) == tok.k = "ch" /\ tok.c = c
IsDigit(tok) == tok.k = "ch" /\ tok.c \in Digits               \* \d
IsSpace(tok) == tok.k = "ch" /\ tok.c \in {" ", "\n"}            \* \s
\* the class [!\]/a-zA-Z0-9] of the binding pattern's lookbehind
IsBlocker(tok) == tok.k = "ch" /\ tok.c \in (Digits \cup {"!", "]", "/", "a"})

DigitVal(c) ==
    CASE c = "0" -> 0 [] c = "1" -> 1 [] c = "2" -> 2 [] c = "3" -> 3 [] c = "4" -> 4
      [] c = "5" -> 5 [] c = "6" -> 6 [] c = "7" -> 7 [] c = "8" -> 8 [] c = "9" -> 9
DigitChar(d) ==
    CASE d = 0 -> "0" [] d = 1 -> "1" [] d = 2 -> "2" [] d = 3 -> "3" [] d = 4 -> "4"
      [] d = 5 -> "5" [] d = 6 -> "6" [] d = 7 -> "7" [] d = 8 -> "8" [] d = 9 -> "9"

\* int(digits) and str(n), on token sequences
RECURSIVE IntOf(_)
IntOf(ds) == IF ds = <<>> THEN 0
             ELSE 10 * IntOf(SubSeq(ds, 1, Len(ds) - 1)) + DigitVal(ds[Len(ds)].c)
RECURSIVE StrOf(_)
StrOf(n) == IF n < 10 THEN <<Ch(DigitChar(n))>>
            ELSE StrOf(n \div 10) \o <<Ch(DigitChar(n % 10))>>

\* first position >= i that holds no whitespace / no digit (Len(s) + 1 at the end)
RECURSIVE SkipSpace(_, _)
SkipSpace(s, i) == IF i <= Len(s) /\ IsSpace(s[i]) THEN SkipSpace(s, i + 1) ELSE i
RECURSIVE SkipDigits(_, _)
SkipDigits(s, i) == IF i <= Len(s) /\ IsDigit(s[i]) THEN SkipDigits(s, i + 1) ELSE i

At(s, i, c) == i >= 1 /\ i <= Len(s) /\ IsChar(s[i], c)

\* \[\d+\] matched at i: the position of its closing bracket, else 0.
MarkerEnd(s, i) ==
    IF At(s, i, "[") /\ SkipDigits(s, i + 1) > i + 1 /\ At(s, SkipDigits(s, i + 1), "]")
    THEN SkipDigits(s, i + 1) ELSE 0
MarkerDigits(s, i) == SubSeq(s, i + 1, MarkerEnd(s, i) - 1)

Marker(ds) == <<Ch("[")>> \o ds \o <<Ch("]")>>

(***************************************************************************)
(* preprocess_llm_text_for_citations (lines 194-210)                       *)
(***************************************************************************)

\* Line 205, \[\s*(\d+\s*(?:,\s*\d+\s*)*)\s*\] matched at i.  The pattern is
\* deterministic up to where whitespace is attributed, so one left-to-right
\* scan decides it.  GroupScan(s, j, nums): s[i..j-1] is "[", whitespace and
\* the numbers nums, each followed by whitespace; the result is
\* [end |-> position of the closing bracket (0: no match), nums |-> the numbers].
RECURSIVE GroupScan(_, _, _)
GroupScan(s, j, nums) ==
    IF At(s, j, "]") THEN [end |-> j, nums |-> nums]
    ELSE IF At(s, j, ",")
         THEN LET a == SkipSpace(s, j + 1)
                  b == SkipDigits(s, a)
              IN IF b > a THEN GroupScan(s, SkipSpace(s, b), Append(nums, SubSeq(s, a, b - 1)))
                 ELSE [end |-> 0, nums |-> <<>>]
         ELSE [end |-> 0, nums |-> <<>>]

GroupMatch(s, i) ==
    IF At(s, i, "[")
    THEN LET a == SkipSpace(s, i + 1)
             b == SkipDigits(s, a)
         IN IF b > a THEN GroupScan(s, SkipSpace(s, b), <<SubSeq(s, a, b - 1)>>)
            ELSE [end |-> 0, nums |-> <<>>]
    ELSE [end |-> 0, nums |-> <<>>]

\* Lines 200-202, replacer: " ".join(f"[{num.strip()}]" for num in numbers ...)
\* (every number of a match is a digit run, so isdigit() drops none).
RECURSIVE JoinMarkers(_, _)
JoinMarkers(nums, sep) ==
    IF nums = <<>> THEN <<>>
    ELSE IF Len(nums) = 1 THEN Marker(nums[1])
    ELSE Marker(nums[1]) \o sep \o JoinMarkers(Tail(nums), sep)

ReplacerAdjacent(nums) == JoinMarkers(nums, <<>>)
Replacer(nums) == JoinMarkers(nums, <<Ch(" ")>>)

\* re.sub of line 205: leftmost matches, left to right, without overlap.
RECURSIVE SplitGroups(_, _)
SplitGroups(s, i) ==
    IF i > Len(s) THEN <<>>
    ELSE LET m == GroupMatch(s, i) IN
         IF m.end # 0 THEN Replacer(m.nums) \o SplitGroups(s, m.end + 1)
         ELSE <<s[i]>> \o SplitGroups(s, i + 1)

\* re.sub of line 208, (\[\d+\])(\[\d+\]) -> \1 \2: after a match the scan
\* resumes behind the second marker of the pair.
RECURSIVE SpaceAdjacent(_, _)
SpaceAdjacent(s, i) ==
    IF i > Len(s) THEN <<>>
    ELSE LET e1 == MarkerEnd(s, i)
             e2 == IF e1 # 0 THEN MarkerEnd(s, e1 + 1) ELSE 0
         IN IF e2 # 0
            THEN SubSeq(s, i, e1) \o <<Ch(" ")>> \o SubSeq(s, e1 + 1, e2)
                 \o SpaceAdjacent(s, e2 + 1)
            ELSE <<s[i]>> \o SpaceAdjacent(s, i + 1)

preprocess_llm_text_for_citations(t) == SpaceAdjacent(SplitGroups(t, 1), 1)

(***************************************************************************)
(* Post-render binding of the markers                                      *)
(***************************************************************************)

\* data-citation-index of the anchor made for marker [num]: num - 1.
CitationIndexSame(num) == num
CitationIndex(num) == num - 1

\* (?<![!\]/a-zA-Z0-9])\[(\d+)\](?!\]) matched at i (lines 223, 468).  The
\* lookbehind reads the character before the marker in the text being scanned.
BindLookbehind(s, i) == i = 1 \/ ~IsBlocker(s[i - 1])

BindMatch(s, i) ==
    /\ MarkerEnd(s, i) # 0
    /\ BindLookbehind(s, i)
    /\ ~At(s, MarkerEnd(s, i) + 1, "]")

\* Lines 219-221, replace_citation_html: num = int(group(1)); the anchor
\* shows [num] and is labelled Citation num.
ReplaceCitationHtml(ds) ==
    LET num == IntOf(ds) IN
    <<AnchorOpen(CitationIndex(num), StrOf(num))>> \o Marker(StrOf(num)) \o <<AnchorClose>>

\* Line 223: first pass of process_citation_markers_in_html.
RECURSIVE BindMarkersFn(_, _)
BindMarkersFn(s, i) ==
    IF i > Len(s) THEN <<>>
    ELSE IF BindMatch(s, i)
         THEN ReplaceCitationHtml(MarkerDigits(s, i)) \o BindMarkersFn(s, MarkerEnd(s, i) + 1)
         ELSE <<s[i]>> \o BindMarkersFn(s, i + 1)

\* Line 226: (</sup>)(<sup>) -> \1 \2
RECURSIVE SpaceAnchors(_, _)
SpaceAnchors(s, i) ==
    IF i > Len(s) THEN <<>>
    ELSE IF s[i].k = "close" /\ i < Len(s) /\ s[i + 1].k = "open"
         THEN <<s[i], Ch(" "), s[i + 1]>> \o SpaceAnchors(s, i + 2)
         ELSE <<s[i]>> \o SpaceAnchors(s, i + 1)

process_citation_markers_in_html(h) == SpaceAnchors(BindMarkersFn(h, 1), 1)

\* Lines 467-471: the substitution synthesize_with_gemini applies itself; the
\* anchor keeps the digits as written and is followed by a space.
InlineAnchor(ds) ==
    <<AnchorOpen(CitationIndex(IntOf(ds)), ds)>> \o Marker(ds) \o <<AnchorClose, Ch(" ")>>

RECURSIVE BindMarkersInline(_, _)
BindMarkersInline(s, i) ==
    IF i > Len(s) THEN <<>>
    ELSE IF BindMatch(s, i)
         THEN InlineAnchor(MarkerDigits(s, i)) \o BindMarkersInline(s, MarkerEnd(s, i) + 1)
         ELSE <<s[i]>> \o BindMarkersInline(s, i + 1)

\* Line 474: re.sub(r"(\s{2,})", " ", html_answer)
RECURSIVE CollapseSpaces(_, _)
CollapseSpaces(s, i) ==
    IF i > Len(s) THEN <<>>
    ELSE IF IsSpace(s[i]) /\ SkipSpace(s, i) >= i + 2
         THEN <<Ch(" ")>> \o CollapseSpaces(s, SkipSpace(s, i))
         ELSE <<s[i]>> \o CollapseSpaces(s, i + 1)

\* Lines 462-463, the Markdown renderer on a text without Markdown syntax:
\* blank lines separate paragraphs, each paragraph is its stripped text inside
\* <p>...</p> and a newline; nothing for a blank text.  A bracket marker
\* without a link definition stays text.
RECURSIVE StripRight(_)
StripRight(s) == IF s # <<>> /\ IsSpace(s[Len(s)]) THEN StripRight(SubSeq(s, 1, Len(s) - 1))
                 ELSE s
Strip(s) == StripRight(SubSeq(s, SkipSpace(s, 1), Len(s)))

Paragraph(t) ==
    IF Strip(t) = <<>> THEN <<>>
    ELSE <<ParOpen>> \o Strip(t) \o <<ParClose, Ch("\n")>>

\* a blank line starts at i: a newline, then white space holding another one
BlankLineAt(s, i) ==
    /\ IsChar(s[i], "\n")
    /\ \E j \in (i + 1)..(SkipSpace(s, i) - 1) : IsChar(s[j], "\n")

RECURSIVE ParagraphsFrom(_, _, _)
ParagraphsFrom(s, start, i) ==
    IF i > Len(s) THEN Paragraph(SubSeq(s, start, Len(s)))
    ELSE IF BlankLineAt(s, i)
         THEN Paragraph(SubSeq(s, start, i - 1))
              \o ParagraphsFrom(s, SkipSpace(s, i), SkipSpace(s, i))
         ELSE ParagraphsFrom(s, start, i + 1)

markdown_parser(t) == ParagraphsFrom(t, 1, 1)

\* Lines 459-474: answer_raw and answer_html of a successful synthesis.
ProcessedText(raw) == preprocess_llm_text_for_citations(raw)
HtmlAnswer(processed) ==
    CollapseSpaces(BindMarkersInline(markdown_parser(processed), 1), 1)

(***************************************************************************)
(* Bounded answer texts                                                    *)
(***************************************************************************)
Pieces ==
    { <<"[", "1", "]">>, <<"[", "2", "]">>, <<"[", "0", "]">>, <<"[", "1", "2", "]">>,
      <<"[", "1", ",", "2", "]">>, <<"[", " ", "2", " ", ",", " ", "1", ",", "3", "]">>,
      <<" ">>, <<"a">>, <<"[">>, <<"]">>, <<"1">>, <<",">> }

RECURSIVE TextsUpTo(_)
TextsUpTo(n) ==
    IF n = 0 THEN {<<>>}
    ELSE LET prev == TextsUpTo(n - 1) IN
         prev \cup { t \o Str(p) : t \in prev, p \in Pieces }

Texts == TextsUpTo(MaxPieces)

InitCite ==
    /\ text \in Texts
    /\ cpc = "raw"
    /\ answer_raw = <<>>
    /\ answer_html = <<>>
    /\ fn_html = <<>>

\* line 459
CitePreprocess ==
    /\ cpc = "raw"
    /\ answer_raw' = ProcessedText(text)
    /\ cpc' = "pre"
    /\ UNCHANGED <<text, answer_html, fn_html>>
    /\ UNCHANGED <<scrapeVars, storeVars, pipeVars, docxVars, extractVars>>

\* lines 462-474
CiteRender ==
    /\ cpc = "pre"
    /\ answer_html' = HtmlAnswer(answer_raw)
    /\ cpc' = "html"
    /\ UNCHANGED <<text, answer_raw, fn_html>>
    /\ UNCHANGED <<scrapeVars, storeVars, pipeVars, docxVars, extractVars>>

\* process_citation_markers_in_html applied to the text as markup
CiteBindFn ==
    /\ cpc = "raw"
    /\ fn_html' = process_citation_markers_in_html(text)
    /\ cpc' = "fn"
    /\ UNCHANGED <<text, answer_raw, answer_html>>
    /\ UNCHANGED <<scrapeVars, storeVars, pipeVars, docxVars, extractVars>>


(***************************************************************************)
(* One /process request, then downloads of the stored report               *)
(***************************************************************************)

\* scrape_urls as a function of the URL list and of what scrape_url returns
\* at each position: the loop body folded over the list until it breaks.
RECURSIVE RunLoop(_, _, _, _)
RunLoop(st, us, i, results) ==
    IF i > Len(us) \/ st.brk THEN st
    ELSE RunLoop(IterBody(st, us[i], i, results[i]), us, i + 1, results)

scrape_urls(us, results) == RunLoop(LoopState(<<>>, 0, {}, <<>>, FALSE), us, 1, results).sd

\* format_context_for_llm (lines 187-191): one "Source [id+1] (url):" header
\* per item, in list order.
ContextNumber(item) == item.id + 1
format_context_for_llm(sd) ==
    [j \in 1..Len(sd) |-> [number |-> ContextNumber(sd[j]), url |-> sd[j].url]]

Min(a, b) == IF a < b THEN a ELSE b

\* Line 689: sources_final; the title is the search hit's title of that URL,
\* the preview the first SOURCE_PREVIEW_LENGTH characters of the text.
SourcesFinal(sd) ==
    [j \in 1..Len(sd) |-> [id |-> sd[j].id, url |-> sd[j].url, title |-> sd[j].url,
                           text_preview |-> Min(sd[j].text, SOURCE_PREVIEW_LENGTH)]]

\* generate_docx, lines 553-564: the list under the sources heading.  An entry
\* is numbered i+1 by enumerate and shows the title of sources[i] (its id is
\* kept to tell which source the entry shows); the URL only for depth 'deep'.
ListNumber(i) == i + 1

\* Lines 554 and 597: the heading over the list.
SourcesHeading(depth) == IF depth = "deep" THEN "References" ELSE "Sources Cited"

\* Lines 564 and 595: the paragraph "No sources were cited." in place of the
\* list.
NoSourcesSilent(depth) ==
    [heading |-> SourcesHeading(depth), notice |-> FALSE, entries |-> <<>>]
NoSourcesNotice(depth) ==
    [heading |-> SourcesHeading(depth), notice |-> TRUE, entries |-> <<>>]

generate_docx_sources(report) ==
    LET sources == report.sources
        depth == report.research_depth
    IN IF sources # <<>>
       THEN [heading |-> SourcesHeading(depth), notice |-> FALSE,
             entries |-> [j \in 1..Len(sources) |->
                 [number |-> ListNumber(j - 1), source |-> sources[j].id,
                  title |-> sources[j].title,
                  url_inline |-> depth = "deep", url_line |-> FALSE, preview |-> FALSE]]]
       ELSE NoSourcesNotice(depth)

\* generate_pdf, lines 581-595
generate_pdf_sources(report) ==
    LET sources == report.sources
        depth == report.research_depth
    IN IF sources # <<>>
       THEN [heading |-> SourcesHeading(depth), notice |-> FALSE,
             entries |-> [j \in 1..Len(sources) |->
                 [number |-> ListNumber(j - 1), source |-> sources[j].id,
                  title |-> sources[j].title,
                  url_inline |-> depth = "deep",
                  url_line |-> depth = "quick",
                  preview |-> depth = "quick" /\ sources[j].text_preview > 0]]]
       ELSE NoSourcesNotice(depth)

NoList == [heading |-> "", notice |-> FALSE, entries |-> <<>>]

(***************************************************************************)
(* synthesize_with_gemini                                                  *)
(***************************************************************************)

\* What one model.generate_content call does: it raises, or it returns a
\* response.  An exception is kept by the phrases of lines 484-491 that its
\* text holds, a response by the fields the code reads: whether it has a
\* candidate, the candidate's finish reason, whether the prompt feedback has a
\* block reason, whether the candidate's content has a part, and the text.
Phrases == {"API key not valid", "quota", "User location is not supported", "token limit"}
FinishReasons == {"STOP", "MAX_TOKENS", "SAFETY", "RECITATION", "OTHER"}

Raise(ps) ==
    [kind |-> "raise", exc |-> ps, candidates |-> FALSE, finish_reason |-> "STOP",
     block_reason |-> FALSE, parts |-> "none", text |-> <<>>]
Response(c, f, b, p, t) ==
    [kind |-> "response", exc |-> {}, candidates |-> c, finish_reason |-> f,
     block_reason |-> b, parts |-> p, text |-> t]

\* An error message: its fixed words, and what its f-string interpolates
\* ("none", the finish or block "reason", or the text of the "exception").
ErrorMessage(m, d) == [msg |-> m, detail |-> d]
NoError == ErrorMessage("", "none")

\* Lines 479-493: the message for an exception, by the phrases of its text.
ExceptionMessage(ps) ==
    IF "API key not valid" \in ps
    THEN ErrorMessage("Invalid Gemini API Key.", "none")
    ELSE IF "quota" \in ps
    THEN ErrorMessage("AI model rate limit exceeded. Please try again later or check your API quota.", "none")
    ELSE IF "User location is not supported" \in ps
    THEN ErrorMessage("AI model access restricted by location.", "none")
    ELSE IF "token limit" \in ps
    THEN ErrorMessage("Content too large for AI model. Try with fewer sources or 'Quick' mode.", "none")
    ELSE ErrorMessage("AI communication error: ", "exception")

\* Line 452: error_map and its default.
FinishMessage(reason) ==
    IF reason = "MAX_TOKENS" THEN ErrorMessage("AI response cut short.", "none")
    ELSE IF reason = "SAFETY" THEN ErrorMessage("Blocked by safety.", "none")
    ELSE IF reason = "RECITATION" THEN ErrorMessage("Blocked (recitation).", "none")
    ELSE ErrorMessage("AI failed (Reason: ).", "reason")

\* response.text (lines 263, 283, 309, 456) raises without a candidate or
\* without a part.
TextRaises(o) == ~o.candidates \/ o.parts = "none"

\* generate_chunked_deep_research (lines 231-311): where the function stands
\* after a chunk: an exception left it, it returned None, or generated_text.
DeepState(raised, exc, none, t, calls) ==
    [raised |-> raised, exc |-> exc, none |-> none, text |-> t, calls |-> calls]

ChunkSeparator == Str(<<"\n", "\n">>)

\* lines 252-263
FirstChunk(o) ==
    IF o.kind = "raise" THEN DeepState(TRUE, o.exc, FALSE, <<>>, 1)
    ELSE IF ~o.candidates THEN DeepState(FALSE, {}, TRUE, <<>>, 1)
    ELSE IF TextRaises(o) THEN DeepState(TRUE, {}, FALSE, <<>>, 1)
    ELSE DeepState(FALSE, {}, FALSE, o.text, 1)

\* lines 275-283 and 301-309
LaterChunk(st, o) ==
    IF st.raised \/ st.none THEN st
    ELSE IF o.kind = "raise" THEN DeepState(TRUE, o.exc, FALSE, st.text, st.calls + 1)
    ELSE IF ~o.candidates THEN DeepState(FALSE, {}, FALSE, st.text, st.calls + 1)
    ELSE IF TextRaises(o) THEN DeepState(TRUE, {}, FALSE, st.text, st.calls + 1)
    ELSE DeepState(FALSE, {}, FALSE, st.text \o ChunkSeparator \o o.text, st.calls + 1)

generate_chunked_deep_research(os) ==
    LaterChunk(LaterChunk(FirstChunk(os[1]), os[2]), os[3])

\* The dict synthesize_with_gemini returns, with the raw text of the model and
\* the number of generate_content calls made.
Success(t, calls) ==
    [error |-> NoError, text |-> t, answer_raw |-> ProcessedText(t),
     answer_html |-> HtmlAnswer(ProcessedText(t)), calls |-> calls]
Failure(m, calls) ==
    [error |-> m, text |-> <<>>, answer_raw |-> <<>>, answer_html |-> <<>>,
     calls |-> calls]

\* Lines 443-456 for one response of the single generation.
SingleGeneration(r) ==
    IF r.kind = "raise" THEN Failure(ExceptionMessage(r.exc), 1)
    ELSE IF r.candidates /\ r.finish_reason # "STOP"
    THEN Failure(FinishMessage(r.finish_reason), 1)
    ELSE IF ~r.candidates /\ r.block_reason
    THEN Failure(ErrorMessage("Prompt blocked ().", "reason"), 1)
    ELSE IF ~r.candidates THEN Failure(ErrorMessage("AI returned empty response.", "none"), 1)
    ELSE IF r.parts = "none" THEN Failure(ExceptionMessage({}), 1)   \* parts[0]: IndexError
    ELSE IF r.text = <<>> THEN Failure(ErrorMessage("AI returned empty response.", "none"), 1)
    ELSE Success(r.text, 1)

\* Lines 423-493; os are the outcomes of the generate_content calls, in order.
synthesize_with_gemini(sd, key, depth, os) ==
    IF ~key THEN Failure(ErrorMessage("AI key missing.", "none"), 0)
    ELSE IF sd = <<>> THEN Failure(ErrorMessage("No content to synthesize.", "none"), 0)
    ELSE IF depth = "deep"
    THEN LET d == generate_chunked_deep_research(os) IN
         IF d.raised THEN Failure(ExceptionMessage(d.exc), d.calls)
         ELSE IF d.none \/ d.text = <<>>
         THEN Failure(ErrorMessage("Failed to generate deep research content", "none"), d.calls)
         ELSE Success(d.text, d.calls)
    ELSE SingleGeneration(os[1])

(***************************************************************************)
(* The /process route and the download routes                              *)
(***************************************************************************)

\* The JSON bodies of process_query_route with their status codes.
NoResponse ==
    [status |-> 0, keys |-> {}, error |-> NoError, sources |-> <<>>,
     research_depth |-> "", report_id |-> 0]
ErrorResponse(status, m) ==
    [status |-> status, keys |-> {"error"}, error |-> ErrorMessage(m, "none"),
     sources |-> <<>>, research_depth |-> "", report_id |-> 0]
\* line 690; the error is the message of synthesize_with_gemini after the
\* words "AI Synthesis Error: "
SynthesisErrorBare(err, sources, depth) ==
    [status |-> 500, keys |-> {"error"}, error |-> err, sources |-> <<>>,
     research_depth |-> "", report_id |-> 0]
SynthesisErrorResponse(err, sources, depth) ==
    [status |-> 500, keys |-> {"error", "sources", "research_depth"}, error |-> err,
     sources |-> sources, research_depth |-> depth, report_id |-> 0]
\* line 696
SuccessResponse(rid, sources, depth) ==
    [status |-> 200, keys |-> {"answer_html", "sources", "report_id", "research_depth"},
     error |-> NoError, sources |-> sources, research_depth |-> depth,
     report_id |-> rid]

Depths == {"quick", "deep", "shallow"}
Queries == {Str(<<>>), Str(<<" ">>), Str(<<"q">>)}
PipeUrlLists == { [j \in 1..n |-> ((j - 1) % k) + 1] : n \in 0..MaxPipeUrls, k \in {1, MaxPipeUrls + 1} }
PipeTexts == TextsUpTo(MaxPipePieces)
ChunkTexts == {Str(<<>>), Str(<<"a">>), Str(<<"[", "1", "]">>)}

\* The outcomes of a call drawn for the single generation and for a chunk.
Raises == { Raise({}) } \cup { Raise({p}) : p \in Phrases } \cup { Raise(Phrases) }
ShallowOutcomes ==
    Raises
    \cup { Response(FALSE, "STOP", b, "none", <<>>) : b \in BOOLEAN }
    \cup { Response(TRUE, f, FALSE, "none", <<>>) : f \in FinishReasons }
    \cup { Response(TRUE, f, FALSE, "some", Str(<<"a">>)) : f \in FinishReasons }
    \cup { Response(TRUE, "STOP", FALSE, "some", t) : t \in PipeTexts }
DeepOutcomes ==
    Raises
    \cup { Response(FALSE, "STOP", b, "none", <<>>) : b \in BOOLEAN }
    \cup { Response(TRUE, "STOP", FALSE, "none", <<>>),
           Response(TRUE, "MAX_TOKENS", FALSE, "some", Str(<<"a">>)) }
    \cup { Response(TRUE, "STOP", FALSE, "some", t) : t \in ChunkTexts }
Outcomes(depth) ==
    IF depth = "deep" THEN DeepOutcomes \X DeepOutcomes \X DeepOutcomes
    ELSE { <<o>> : o \in ShallowOutcomes }

InitPipe ==
    /\ ppc = "start"
    /\ query \in Queries
    /\ api_key \in BOOLEAN
    /\ research_depth \in Depths
    /\ urls \in PipeUrlLists
    /\ idx = 1 /\ scraped_data = <<>> /\ total_content_length = 0
    /\ urls_attempted = {} /\ scrape_calls = <<>> /\ spc = "idle"
    /\ model_calls = <<>>
    /\ response = NoResponse
    /\ context_labels = <<>>
    /\ sources_final = <<>>
    /\ docx_sources = NoList
    /\ pdf_sources = NoList

\* The cache when the request arrives: it holds the report of an earlier
\* request of depth 'quick' with one source and the answer "a".
PriorReport ==
    Report(Success(Str(<<"a">>), 1).answer_raw, Success(Str(<<"a">>), 1).answer_html,
           SourcesFinal(<<[id |-> 0, url |-> 1, text |-> MAX_CONTENT_LENGTH_PER_SITE]>>),
           "quick")
InitStoreWithPrior ==
    /\ report_store = [r \in {1} |-> PriorReport]
    /\ report_order = <<1>>
    /\ next_id = 1
    /\ inserted = <<1>>
    /\ last_evicted = {}
    /\ threads = [t \in Threads |-> IdleThread]

\* process_query_route up to line 684: an empty query is a 400, a missing key
\* a 500, no URL to scrape a 404, no usable content a 500.
ProcessScrape ==
    /\ ppc = "start"
    /\ IF Strip(query) = <<>>
       THEN /\ ppc' = "error"
            /\ response' = ErrorResponse(400, "Query cannot be empty.")
            /\ UNCHANGED scraped_data
       ELSE IF ~api_key
       THEN /\ ppc' = "error"
            /\ response' = ErrorResponse(500, "AI model not configured.")
            /\ UNCHANGED scraped_data
       ELSE IF urls = <<>>
       THEN /\ ppc' = "error"
            /\ response' = ErrorResponse(404, "Could not find relevant web sources.")
            /\ UNCHANGED scraped_data
       ELSE \E results \in [1..Len(urls) -> ScrapeResults] :
               /\ scraped_data' = scrape_urls(urls, results)
               /\ IF scraped_data' = <<>>
                  THEN /\ ppc' = "error"
                       /\ response' = ErrorResponse(500,
                              "Failed to retrieve usable content from web sources.")
                  ELSE /\ ppc' = "scraped"
                       /\ UNCHANGED response
    /\ UNCHANGED <<urls, idx, total_content_length, urls_attempted, scrape_calls, spc>>
    /\ UNCHANGED <<query, api_key, research_depth, model_calls, context_labels,
                   sources_final, docx_sources, pdf_sources>>
    /\ UNCHANGED <<storeVars, citeVars, docxVars, extractVars>>

\* Lines 687-690: synthesize_with_gemini, sources_final, and the error
\* response when the synthesis failed.
ProcessSynthesize ==
    /\ ppc = "scraped"
    /\ context_labels' = format_context_for_llm(scraped_data)
    /\ sources_final' = SourcesFinal(scraped_data)
    /\ \E os \in Outcomes(research_depth) :
          LET r == synthesize_with_gemini(scraped_data, api_key, research_depth, os) IN
          /\ model_calls' = model_calls \o SubSeq(os, 1, r.calls)
          /\ text' = r.text
          /\ answer_raw' = r.answer_raw
          /\ answer_html' = r.answer_html
          /\ IF r.error # NoError
             THEN /\ ppc' = "error"
                  /\ response' = SynthesisErrorResponse(r.error,
                                     SourcesFinal(scraped_data), research_depth)
             ELSE /\ ppc' = "synth"
                  /\ UNCHANGED response
    /\ UNCHANGED <<cpc, fn_html>>
    /\ UNCHANGED <<query, api_key, research_depth, docx_sources, pdf_sources>>
    /\ UNCHANGED <<scrapeVars, storeVars, docxVars, extractVars>>

\* Lines 691-696: the report is put together and stored under a fresh id.
ProcessStore ==
    /\ ppc = "synth"
    /\ LET rid == next_id + 1
           r == add_to_report_store(report_store, report_order, rid,
                    Report(answer_raw, answer_html, sources_final, research_depth))
       IN /\ report_store' = r.store
          /\ report_order' = r.order
          /\ next_id' = rid
          /\ inserted' = Append(inserted, rid)
          /\ last_evicted' = DOMAIN report_store \ DOMAIN r.store
          /\ response' = SuccessResponse(rid, sources_final, research_depth)
    /\ ppc' = "stored"
    /\ UNCHANGED threads
    /\ UNCHANGED <<query, api_key, research_depth, model_calls, context_labels,
                   sources_final, docx_sources, pdf_sources>>
    /\ UNCHANGED <<scrapeVars, citeVars, docxVars, extractVars>>

\* The report ids a download can ask for: the ones handed out and one more.
RequestedIds == 1..(next_id + 1)

\* download_docx_route (lines 699-705): nothing is rendered for an id that is
\* not in the store.
DownloadDocx ==
    /\ ppc = "stored"
    /\ \E rid \in RequestedIds :
          docx_sources' = IF rid \in DOMAIN report_store
                          THEN generate_docx_sources(report_store[rid])
                          ELSE NoList
    /\ UNCHANGED <<ppc, query, api_key, research_depth, model_calls, response,
                   context_labels, sources_final, pdf_sources>>
    /\ UNCHANGED <<scrapeVars, storeVars, citeVars, docxVars, extractVars>>

\* download_pdf_route (lines 707-716)
DownloadPdf ==
    /\ ppc = "stored"
    /\ \E rid \in RequestedIds :
          pdf_sources' = IF rid \in DOMAIN report_store
                         THEN generate_pdf_sources(report_store[rid])
                         ELSE NoList
    /\ UNCHANGED <<ppc, query, api_key, research_depth, model_calls, response,
                   context_labels, sources_final, docx_sources>>
    /\ UNCHANGED <<scrapeVars, storeVars, citeVars, docxVars, extractVars>>

(***************************************************************************)
(* generate_docx and generate_pdf on a report                              *)
(***************************************************************************)

\* answer.split('\n') (line 508)
RECURSIVE SplitFrom(_, _, _)
SplitFrom(s, start, i) ==
    IF i > Len(s) THEN <<SubSeq(s, start, Len(s))>>
    ELSE IF IsChar(s[i], "\n")
         THEN <<SubSeq(s, start, i - 1)>> \o SplitFrom(s, i + 1, i + 1)
         ELSE SplitFrom(s, start, i + 1)
SplitLines(s) == SplitFrom(s, 1, 1)

StartsWith(s, cs) == Len(s) >= Len(cs) /\ SubSeq(s, 1, Len(cs)) = Str(cs)

\* Line 514: stripped_line.count('#', 0, 3), at most 3 (line 516)
HeadingLevel(s) == Cardinality({ i \in 1..Min(3, Len(s)) : IsChar(s[i], "#") })

\* Line 515: stripped_line.lstrip('# ').strip()
RECURSIVE SkipHashSpace(_, _)
SkipHashSpace(s, i) ==
    IF i <= Len(s) /\ (IsChar(s[i], "#") \/ IsChar(s[i], " ")) THEN SkipHashSpace(s, i + 1)
    ELSE i
HeadingText(s) == Strip(SubSeq(s, SkipHashSpace(s, 1), Len(s)))

\* Lines 523 and 527: '* ' or '- ' in front, or the pattern ^\d+\.\s+
IsBullet(s) == StartsWith(s, <<"*", " ">>) \/ StartsWith(s, <<"-", " ">>)
NumberEnd(s) ==
    LET i == SkipDigits(s, 1) IN
    IF i > 1 /\ i + 1 <= Len(s) /\ IsChar(s[i], ".") /\ IsSpace(s[i + 1])
    THEN SkipSpace(s, i + 1) ELSE 0
IsNumbered(s) == NumberEnd(s) # 0
ListContent(s) ==
    IF IsBullet(s) THEN SubSeq(s, 3, Len(s)) ELSE SubSeq(s, NumberEnd(s), Len(s))
ListStyle(s) == IF IsBullet(s) THEN "List Bullet" ELSE "List Number"

\* What the loop body takes a stripped line for (lines 512, 523-530, 539, 546).
LineKind(s) ==
    IF StartsWith(s, <<"#">>) THEN "heading"
    ELSE IF IsBullet(s) \/ IsNumbered(s) THEN "list"
    ELSE IF s # <<>> THEN "plain"
    ELSE "blank"

\* A block the walk adds to the document: its kind, its style and heading
\* level, the texts put into it, and (history) the numbers of the lines they
\* came from.
Block(kind, style, level, content, src) ==
    [kind |-> kind, style |-> style, level |-> level, content |-> content, src |-> src]

\* Line 548: an empty line ends the open paragraph.
OnBlankKeep(cp) == cp
OnBlank(cp) == 0

\* The loop body (lines 509-548) for line number i on the document body and
\* current_paragraph (0 is None, otherwise the position of the paragraph).
WalkLine(body, cp, line, i) ==
    LET s == Strip(line) IN
    IF LineKind(s) = "heading"
    THEN [body |-> IF HeadingText(s) # <<>>
                   THEN Append(body, Block("heading", "Heading", HeadingLevel(s), <<HeadingText(s)>>,
                                      <<i>>))
                   ELSE body,
          cp |-> 0]
    ELSE IF LineKind(s) = "list"
    THEN [body |-> IF ListContent(s) # <<>>
                   THEN Append(body, Block("list", ListStyle(s), 0, <<ListContent(s)>>, <<i>>))
                   ELSE body,
          cp |-> 0]
    ELSE IF LineKind(s) = "plain"
    THEN IF cp = 0
         THEN [body |-> Append(body, Block("para", "Normal", 0, <<s>>, <<i>>)),
               cp |-> Len(body) + 1]
         ELSE [body |-> [body EXCEPT ![cp].content = Append(@, s), ![cp].src = Append(@, i)],
               cp |-> cp]
    ELSE [body |-> body, cp |-> OnBlank(cp)]

\* Bounded answers: up to MaxLines lines joined by newlines.
DocLines ==
    { <<"#", " ", "a">>, <<"#", "#">>, <<"*", " ", "a">>, <<"1", ".", " ", "a">>,
      <<"1", ".", "a">>, <<"a">>, <<>>, <<" ">> }
RECURSIVE DocsOf(_)
DocsOf(n) ==
    IF n = 1 THEN { Str(l) : l \in DocLines }
    ELSE { d \o <<Ch("\n")>> \o Str(l) : d \in DocsOf(n - 1), l \in DocLines }
Docs == UNION { DocsOf(n) : n \in 1..MaxLines }
DocSources ==
    { <<>>, SourcesFinal(<<[id |-> 0, url |-> 1, text |-> MAX_CONTENT_LENGTH_PER_SITE]>>) }
DocReports ==
    { Report(t, markdown_parser(t), src, d) :
        t \in Docs, src \in DocSources, d \in {"quick", "deep"} }
NoReport == Report(<<>>, <<>>, <<>>, "")

IdleDocx ==
    /\ report_data = NoReport /\ dpc = "idle" /\ doc_line = 1
    /\ current_paragraph = 0 /\ docx_body = <<>>

InitDocx ==
    /\ report_data \in DocReports
    /\ dpc = "start"
    /\ doc_line = 1
    /\ current_paragraph = 0
    /\ docx_body = <<>>

\* generate_docx, one iteration of the loop of line 508
DocxLine ==
    /\ dpc \in {"start", "walk"}
    /\ doc_line <= Len(SplitLines(report_data.answer_raw))
    /\ LET r == WalkLine(docx_body, current_paragraph,
                         SplitLines(report_data.answer_raw)[doc_line], doc_line)
       IN /\ docx_body' = r.body
          /\ current_paragraph' = r.cp
    /\ doc_line' = doc_line + 1
    /\ dpc' = "walk"
    /\ UNCHANGED <<report_data, extractVars>>
    /\ UNCHANGED <<scrapeVars, storeVars, citeVars, pipeVars>>

\* generate_docx after the loop: the sources section and the saved file
\* (lines 552-568)
DocxSources ==
    /\ dpc = "walk"
    /\ doc_line > Len(SplitLines(report_data.answer_raw))
    /\ docx_sources' = generate_docx_sources(report_data)
    /\ dpc' = "docx"
    /\ UNCHANGED <<report_data, doc_line, current_paragraph, docx_body, extractVars>>
    /\ UNCHANGED <<ppc, query, api_key, research_depth, model_calls, response,
                   context_labels, sources_final, pdf_sources>>
    /\ UNCHANGED <<scrapeVars, storeVars, citeVars>>

\* generate_pdf (lines 573-652) on the same report
GeneratePdf ==
    /\ dpc = "start"
    /\ pdf_sources' = generate_pdf_sources(report_data)
    /\ dpc' = "pdf"
    /\ UNCHANGED <<report_data, doc_line, current_paragraph, docx_body, extractVars>>
    /\ UNCHANGED <<ppc, query, api_key, research_depth, model_calls, response,
                   context_labels, sources_final, docx_sources>>
    /\ UNCHANGED <<scrapeVars, storeVars, citeVars>>

(***************************************************************************)
(* scrape_url                                                              *)
(***************************************************************************)

\* What a URL serves and what the libraries make of it: the Content-Type
\* header and the size of the payload, whether trafilatura.fetch_url returns
\* the page, None or raises, the length of what trafilatura.extract returns
\* (0 for None, -1 when it raises), how requests.get ends, and the lengths of
\* the paragraph text of the first container with paragraphs and of all <p>.
ContentTypes ==
    {"text/html", "text/html; charset=utf-8", "application/xhtml+xml",
     "application/pdf", "text/plain", ""}
\* line 148: 'html' in content_type
HasHtml(ct) == ct \in {"text/html", "text/html; charset=utf-8", "application/xhtml+xml"}

PayloadSizes == {1000, PAYLOAD_LIMIT, PAYLOAD_LIMIT + 1}
Pages ==
    [content_type : ContentTypes, size : PayloadSizes,
     fetch : {"page", "none", "raises"}, extracted : {-1, 0, 100, 101, 20000},
     get : {"ok", "timeout", "http_error", "error"},
     container : {0, 200, 201}, paragraphs : {0, 100, 101, 20000}]

Scraped(n, strategy) == [none |-> FALSE, length |-> n, strategy |-> strategy]
NoContent == [none |-> TRUE, length |-> 0, strategy |-> "none"]

\* Lines 120-139: trafilatura; the text is cut to MAX_CONTENT_LENGTH_PER_SITE.
TrafilaturaSucceeds(p) == p.fetch = "page" /\ p.extracted > 100

\* Lines 141-170: requests and BeautifulSoup.
Fallback(p) ==
    IF p.get # "ok" THEN NoContent
    ELSE IF ~HasHtml(p.content_type) THEN NoContent
    ELSE IF p.size > PAYLOAD_LIMIT THEN NoContent
    ELSE IF p.container > 200
    THEN Scraped(Min(p.container, MAX_CONTENT_LENGTH_PER_SITE), "bs4")
    ELSE IF p.paragraphs > 100
    THEN Scraped(Min(p.paragraphs, MAX_CONTENT_LENGTH_PER_SITE), "bs4")
    ELSE NoContent

scrape_url(p) ==
    IF TrafilaturaSucceeds(p)
    THEN Scraped(Min(p.extracted, MAX_CONTENT_LENGTH_PER_SITE), "trafilatura")
    ELSE Fallback(p)

NoPage ==
    [content_type |-> "", size |-> 0, fetch |-> "none", extracted |-> 0, get |-> "error",
     container |-> 0, paragraphs |-> 0]
IdleExtract == page = NoPage /\ epc = "idle" /\ scrape_result = NoContent

InitExtract ==
    /\ page \in Pages
    /\ epc = "start"
    /\ scrape_result = NoContent

ScrapeUrl ==
    /\ epc = "start"
    /\ scrape_result' = scrape_url(page)
    /\ epc' = "done"
    /\ UNCHANGED <<page, docxVars>>
    /\ UNCHANGED <<scrapeVars, storeVars, citeVars, pipeVars>>

(***************************************************************************)
(* Specifications                                                          *)
(***************************************************************************)
IdleScrape ==
    /\ urls = <<>> /\ idx = 1 /\ scraped_data = <<>> /\ total_content_length = 0
    /\ urls_attempted = {} /\ scrape_calls = <<>> /\ spc = "idle"
IdleCite ==
    /\ text = <<>> /\ cpc = "idle" /\ answer_raw = <<>> /\ answer_html = <<>>
    /\ fn_html = <<>>
IdlePipe ==
    /\ ppc = "idle" /\ query = <<>> /\ api_key = FALSE /\ research_depth = "quick"
    /\ model_calls = <<>> /\ response = NoResponse /\ context_labels = <<>>
    /\ sources_final = <<>> /\ docx_sources = NoList /\ pdf_sources = NoList

IdleRest == IdleDocx /\ IdleExtract

Init == InitScrape /\ InitStoreWith(0) /\ IdleCite /\ IdlePipe /\ IdleRest
Next == ScrapeIter \/ ScrapeBreak \/ ScrapeReturn
Spec == Init /\ [][Next]_vars

InitStore == IdleScrape /\ InitStoreWith(0) /\ IdleCite /\ IdlePipe /\ IdleRest
NextStore == AddToReportStore
SpecStore == InitStore /\ [][NextStore]_vars

InitStoreConc ==
    IdleScrape /\ InitStoreWith(ConcPrefill) /\ IdleCite /\ IdlePipe /\ IdleRest
NextStoreConc ==
    \E t \in Threads :
        \/ ThreadCall(t) \/ ThreadCheck(t) \/ ThreadPop(t) \/ ThreadDel(t)
        \/ ThreadStore(t) \/ ThreadAppend(t)
SpecStoreConc == InitStoreConc /\ [][NextStoreConc]_vars

InitCiteSpec == IdleScrape /\ InitStoreWith(0) /\ InitCite /\ IdlePipe /\ IdleRest
NextCite == CitePreprocess \/ CiteRender \/ CiteBindFn
SpecCite == InitCiteSpec /\ [][NextCite]_vars

InitPipeSpec == InitPipe /\ InitStoreWithPrior /\ IdleCite /\ IdleRest
NextPipe == ProcessScrape \/ ProcessSynthesize \/ ProcessStore \/ DownloadDocx \/ DownloadPdf
SpecPipe == InitPipeSpec /\ [][NextPipe]_vars

InitDocxSpec ==
    IdleScrape /\ InitStoreWith(0) /\ IdleCite /\ IdlePipe /\ InitDocx /\ IdleExtract
NextDocx == DocxLine \/ DocxSources \/ GeneratePdf
SpecDocx == InitDocxSpec /\ [][NextDocx]_vars

InitExtractSpec ==
    IdleScrape /\ InitStoreWith(0) /\ IdleCite /\ IdlePipe /\ IdleDocx /\ InitExtract
NextExtract == ScrapeUrl
SpecExtract == InitExtractSpec /\ [][NextExtract]_vars

(***************************************************************************)
(* Properties                                                              *)
(***************************************************************************)

RECURSIVE SumText(_)
SumText(sd) == IF sd = <<>> THEN 0 ELSE Head(sd).text + SumText(Tail(sd))

\* C1: the list scrape_urls builds has ids 0, 1, ..., n-1 in list order at
\* every point of the loop and on return, whichever URLs failed extraction.
C1_ContiguousIds ==
    \A j \in 1..Len(scraped_data) : scraped_data[j].id = j - 1

\* scrape_urls returned two or more sources although its first URL failed.
C1_Witness ==
    /\ spc = "done"
    /\ Len(scraped_data) >= 2
    /\ scraped_data[1].url # urls[1]
    /\ Len(scrape_calls) > Len(scraped_data)

\* C2: after scrape_urls has returned, the texts of the returned sources sum
\* to at most MAX_TOTAL_CONTENT_LENGTH (every text being at most
\* MAX_CONTENT_LENGTH_PER_SITE long).
C2_TotalWithinCap ==
    (spc = "done" /\ \A j \in 1..Len(scraped_data) :
                        scraped_data[j].text <= MAX_CONTENT_LENGTH_PER_SITE)
        => SumText(scraped_data) <= MAX_TOTAL_CONTENT_LENGTH

\* C3: within one scrape_urls call scrape_url is called at most once per
\* distinct URL, and no URL yields two sources.
C3_AtMostOncePerUrl ==
    /\ \A j, k \in 1..Len(scrape_calls) : j # k => scrape_calls[j] # scrape_calls[k]
    /\ \A j, k \in 1..Len(scraped_data) : j # k => scraped_data[j].url # scraped_data[k].url

\* The stored id that was inserted first.
EarliestStored ==
    LET at == { j \in 1..Len(inserted) : inserted[j] \in DOMAIN report_store }
    IN inserted[CHOOSE j \in at : \A k \in at : j <= k]

\* C4: with insertions made one at a time under distinct ids, the store never
\* holds more than REPORT_STORE_MAX_ITEMS reports; an insertion into a full
\* store removes exactly the earliest-inserted stored report, an insertion
\* below capacity removes nothing, and either adds the new report.
C4_EvictsExactlyOldest ==
    /\ Cardinality(DOMAIN report_store) <= REPORT_STORE_MAX_ITEMS
    /\ [][ LET before == DOMAIN report_store
               after == DOMAIN report_store'
           IN /\ Cardinality(after) <= REPORT_STORE_MAX_ITEMS
              /\ after \ before = {next_id'}
              /\ IF Cardinality(before) = REPORT_STORE_MAX_ITEMS
                 THEN before \ after = {EarliestStored}
                 ELSE before \ after = {}
         ]_vars

\* The second insertion into a full store has evicted the second report.
C4_Witness ==
    /\ Len(inserted) = REPORT_STORE_MAX_ITEMS + 2
    /\ last_evicted = {inserted[2]}
    /\ Cardinality(DOMAIN report_store) = REPORT_STORE_MAX_ITEMS

AllIdle == \A t \in Threads : threads[t].pc = "idle"

\* The stored ids in the order they were stored.
StoredInOrder == SelectSeq(inserted, LAMBDA r : r \in DOMAIN report_store)

\* C5: with requests interleaved inside add_to_report_store, whenever no call
\* is under way the cache is one that insertions made one at a time produce:
\* at most REPORT_STORE_MAX_ITEMS reports, and report_order lists exactly the
\* stored ids in insertion order.
C5_InsertionAtomic ==
    AllIdle => /\ Cardinality(DOMAIN report_store) <= REPORT_STORE_MAX_ITEMS
               /\ report_order = StoredInOrder

\* The anchors of a markup: positions of the opening tags.
Anchors(h) == { i \in 1..Len(h) : h[i].k = "open" }

\* C6: a displayed number N designates the source of index N-1 at every
\* stage: the prompt header numbered N carries the URL of the source with id
\* N-1, an anchor showing [N] carries data-citation-index N-1, and the DOCX
\* and PDF lists show the source with id N-1 under number N.
C6_NumberIsIndexPlusOne ==
    /\ \A j \in 1..Len(context_labels) :
          \E k \in 1..Len(scraped_data) :
             /\ scraped_data[k].id = context_labels[j].number - 1
             /\ scraped_data[k].url = context_labels[j].url
             /\ k = j
    /\ \A i \in Anchors(answer_html) :
          /\ MarkerEnd(answer_html, i + 1) # 0
          /\ answer_html[i].n = IntOf(MarkerDigits(answer_html, i + 1)) - 1
    /\ \A j \in 1..Len(docx_sources.entries) :
          docx_sources.entries[j].source = docx_sources.entries[j].number - 1
    /\ \A j \in 1..Len(pdf_sources.entries) :
          pdf_sources.entries[j].source = pdf_sources.entries[j].number - 1

\* A stored report with two sources, cited as [2] in the answer, and both
\* documents rendered.
C6_Witness ==
    /\ ppc = "stored"
    /\ Len(sources_final) = 2
    /\ Len(context_labels) = 2
    /\ \E i \in Anchors(answer_html) : answer_html[i].n = 1
    /\ Len(docx_sources.entries) = 2
    /\ Len(pdf_sources.entries) = 2

\* C7: no citation anchor of the rendered answer has an index outside
\* 0..|sources|-1 (markers [0] and [N > |sources|] stay plain text).
C7_AnchorsWithinSources ==
    ppc \in {"synth", "stored"} =>
        \A i \in Anchors(answer_html) :
            answer_html[i].n >= 0 /\ answer_html[i].n <= Len(scraped_data) - 1

\* o holds sub as a contiguous part
Contains(o, sub) ==
    \E j \in 0..(Len(o) - Len(sub)) : SubSeq(o, j + 1, j + Len(sub)) = sub

\* InPlace(t, o, i, j, sep): o from position j on is t from position i on with
\* every citation group replaced, where it stands, by its numbers as single
\* markers in their order joined by sep; a space the second substitution
\* inserted behind a replaced group (none stands there in t) is passed over.
RECURSIVE InPlace(_, _, _, _, _)
InPlace(t, o, i, j, sep) ==
    IF i > Len(t) THEN j > Len(o)
    ELSE LET m == GroupMatch(t, i) IN
         IF m.end # 0
         THEN LET rep == JoinMarkers(m.nums, sep)
                  nx == j + Len(rep)
              IN /\ nx - 1 <= Len(o)
                 /\ SubSeq(o, j, nx - 1) = rep
                 /\ IF At(o, nx, " ") /\ ~At(t, m.end + 1, " ")
                    THEN InPlace(t, o, m.end + 1, nx + 1, sep)
                    ELSE InPlace(t, o, m.end + 1, nx, sep)
         ELSE /\ j <= Len(o)
              /\ o[j] = t[i]
              /\ InPlace(t, o, i + 1, j + 1, sep)

RECURSIVE RunNums(_, _)
RunNums(s, i) ==
    IF MarkerEnd(s, i) # 0 THEN <<MarkerDigits(s, i)>> \o RunNums(s, MarkerEnd(s, i) + 1)
    ELSE <<>>

\* C9: for every run of two or more directly adjacent single-number markers
\* of the input, the output holds the markers of the run with one space
\* between every two consecutive ones.
C9_RunsGetSpaces ==
    cpc = "pre" =>
        \A i \in 1..Len(text) :
            Len(RunNums(text, i)) >= 2 =>
                Contains(answer_raw, JoinMarkers(RunNums(text, i), <<Ch(" ")>>))

RECURSIVE JoinAnchorsFn(_)
JoinAnchorsFn(nums) ==
    IF nums = <<>> THEN <<>>
    ELSE IF Len(nums) = 1 THEN ReplaceCitationHtml(nums[1])
    ELSE ReplaceCitationHtml(nums[1]) \o <<Ch(" ")>> \o JoinAnchorsFn(Tail(nums))

RECURSIVE JoinAnchorsInline(_)
JoinAnchorsInline(nums) ==
    IF nums = <<>> THEN <<>> ELSE InlineAnchor(nums[1]) \o JoinAnchorsInline(Tail(nums))

\* A run of two or more adjacent markers starts at i, stands alone (no
\* character of the lookbehind class before it, no bracket behind it) and is
\* not the tail of a longer run.
StandaloneRun(h, i) ==
    /\ Len(RunNums(h, i)) >= 2
    /\ BindMatch(h, i)
    /\ LET last == i + Len(JoinMarkers(RunNums(h, i), <<>>)) IN ~At(h, last, "]")

\* C10: the binding pass turns every marker of a run of adjacent markers of
\* its input markup into an anchor of its own, consecutive anchors separated
\* by a space: process_citation_markers_in_html on any markup, and the
\* substitution of synthesize_with_gemini on the rendered answer.
C10_AdjacentMarkersAllBound ==
    /\ cpc = "fn" =>
          \A i \in 1..Len(text) :
              StandaloneRun(text, i) => Contains(fn_html, JoinAnchorsFn(RunNums(text, i)))
    /\ cpc = "html" =>
          LET h == markdown_parser(answer_raw) IN
          \A i \in 1..Len(h) :
              StandaloneRun(h, i) => Contains(answer_html, JoinAnchorsInline(RunNums(h, i)))

\* C11: the citation passes are idempotent: the pre-render pass applied to its
\* own output returns it unchanged, and so does the binding pass applied to
\* markup it has already bound (the function and the substitution of
\* synthesize_with_gemini with its whitespace clean-up).
C11_PassesIdempotent ==
    /\ cpc = "pre" => preprocess_llm_text_for_citations(answer_raw) = answer_raw
    /\ cpc = "fn" => process_citation_markers_in_html(fn_html) = fn_html
    /\ cpc = "html" =>
          CollapseSpaces(BindMarkersInline(answer_html, 1), 1) = answer_html

\* A chunk that produced text, and a chunk that failed: it raised, came back
\* without a candidate (blocked or not), or has no part to read.
ChunkSucceeded(o) == o.kind = "response" /\ o.candidates /\ o.parts = "some" /\ o.text # <<>>
ChunkFailed(o) == o.kind = "raise" \/ ~o.candidates \/ o.parts = "none"
IsPrefix(a, b) == Len(a) <= Len(b) /\ SubSeq(b, 1, Len(a)) = a

\* C12: in a deep synthesis whose first chunk succeeded and whose second chunk
\* failed in any way, the synthesis is a success whose text starts with the
\* first chunk's text; it is never an overall failure.
C12_SecondChunkFailureTolerated ==
    (/\ research_depth = "deep"
     /\ Len(model_calls) >= 2
     /\ ChunkSucceeded(model_calls[1])
     /\ ChunkFailed(model_calls[2]))
    => /\ ppc # "error"
       /\ IsPrefix(model_calls[1].text, text)

\* The request failed after sources were extracted: the synthesis failed.
SynthesisFailed == ppc = "error" /\ scraped_data # <<>>

\* The fixed words of the classified failures: truncated, safety-blocked,
\* recitation-blocked, empty response, auth, rate-limited, region,
\* context-too-large, unknown.
TaxonomyMessages ==
    { "AI response cut short.",
      "Blocked by safety.", "Prompt blocked ().",
      "Blocked (recitation).",
      "AI returned empty response.", "Failed to generate deep research content",
      "Invalid Gemini API Key.",
      "AI model rate limit exceeded. Please try again later or check your API quota.",
      "AI model access restricted by location.",
      "Content too large for AI model. Try with fewer sources or 'Quick' mode.",
      "AI failed (Reason: ).", "AI communication error: " }

\* C13: the message of every failed synthesis is one of the classified
\* messages, and it never carries the text of the provider's exception.
C13_FailuresClassified ==
    SynthesisFailed =>
        /\ response.error.msg \in TaxonomyMessages
        /\ response.error.detail # "exception"

\* C14: when the synthesis fails after at least one source was extracted, the
\* request ends with an error response that carries, besides the error, the
\* research depth of the request and the complete list of extracted sources:
\* one entry per scraped item, with the item's id and URL, in the same order.
C14_FailureKeepsSources ==
    SynthesisFailed =>
        /\ response.status = 500
        /\ {"error", "sources", "research_depth"} \subseteq response.keys
        /\ response.error # NoError
        /\ response.research_depth = research_depth
        /\ Len(response.sources) = Len(scraped_data)
        /\ \A j \in 1..Len(scraped_data) :
              /\ response.sources[j].id = scraped_data[j].id
              /\ response.sources[j].url = scraped_data[j].url

C14_Witness ==
    /\ SynthesisFailed
    /\ research_depth = "deep"
    /\ Len(model_calls) = 3
    /\ Len(response.sources) = 2
    /\ response.sources[2].id = 1

\* C16: in a deep synthesis whose first chunk gave no usable content (it has no
\* candidate, no part, or no text), the synthesis is reported as failed
\* whatever the second and the third chunk return.
C16_FirstChunkFailureFails ==
    (/\ research_depth = "deep"
     /\ model_calls # <<>>
     /\ model_calls[1].kind = "response"
     /\ ~ChunkSucceeded(model_calls[1]))
    => SynthesisFailed

\* C20: a report is inserted exactly once by a successful request and never by
\* a failing one; every step that is not the insertion of a successful request
\* (the failing requests, the DOCX and PDF downloads) leaves report_store,
\* report_order and every stored report unchanged; the model is never invoked
\* when no source was extracted.
C20_InsertedOnlyOnSuccess ==
    /\ scraped_data = <<>> => model_calls = <<>>
    /\ ppc = "error" => response.report_id \notin DOMAIN report_store
    /\ ppc = "stored" =>
          /\ response.report_id \in DOMAIN report_store
          /\ Cardinality({ j \in 1..Len(report_order) :
                             report_order[j] = response.report_id }) = 1
    /\ [][IF ppc = "synth" /\ ppc' = "stored"
          THEN /\ response'.report_id \notin DOMAIN report_store
               /\ DOMAIN report_store' = DOMAIN report_store \cup {response'.report_id}
               /\ report_order' = Append(report_order, response'.report_id)
               /\ \A r \in DOMAIN report_store : report_store'[r] = report_store[r]
               /\ UNCHANGED model_calls
          ELSE /\ UNCHANGED <<report_store, report_order>>
               /\ (model_calls' # model_calls => scraped_data # <<>>)]_vars

\* A successful request stored its report next to the earlier one, and both
\* documents of the new report were downloaded.
C20_Witness ==
    /\ ppc = "stored"
    /\ Len(report_order) = 2
    /\ report_store[response.report_id].sources = sources_final
    /\ Len(docx_sources.entries) = 2
    /\ Len(pdf_sources.entries) = 2

\* C18: the PDF of a stored report whose depth is not 'deep' lists each source
\* as the shallow card (number, title, the URL on a line of its own, the
\* preview when there is one); the compact list with the URL inline is used
\* for depth 'deep' only.
C18_ShallowCardUnlessDeep ==
    \A j \in 1..Len(pdf_sources.entries) :
        LET e == pdf_sources.entries[j] IN
        IF pdf_sources.heading = "References"
        THEN e.url_inline /\ ~e.url_line /\ ~e.preview
        ELSE ~e.url_inline /\ e.url_line /\ e.preview

\* C15: for a report whose source list is empty, generate_docx and
\* generate_pdf both complete, and the document shows the notice
\* 'No sources were cited.' in place of the list.
C15_EmptySourcesNotice ==
    report_data.sources = <<>> =>
        /\ dpc = "docx" => docx_sources.notice /\ docx_sources.entries = <<>>
        /\ dpc = "pdf" => pdf_sources.notice /\ pdf_sources.entries = <<>>

\* Both documents of a report without sources.
C15_Witness ==
    /\ dpc \in {"docx", "pdf"}
    /\ report_data.sources = <<>>
    /\ report_data.research_depth = "deep"
    /\ dpc = "docx" => docx_sources.notice /\ Len(docx_body) = 2
    /\ dpc = "pdf" => pdf_sources.notice

\* The lines of the answer and the plain-text ones among them: not blank, no
\* heading, no list item.
AnswerLines == SplitLines(report_data.answer_raw)
IsPlain(i) == LineKind(Strip(AnswerLines[i])) = "plain"
\* The lines i..j are a run of plain lines that no plain line walked so far
\* extends.
MaximalRun(i, j) ==
    /\ \A k \in i..j : IsPlain(k)
    /\ i = 1 \/ ~IsPlain(i - 1)
    /\ j = doc_line - 1 \/ ~IsPlain(j + 1)

\* C19: in generate_docx's walk over the lines, a paragraph is open exactly
\* from a plain-text line until the next blank line, heading or list item;
\* each maximal run of consecutive plain lines is one paragraph holding the
\* lines of the run in order, and no plain line is put into a heading or a
\* list item.
C19_PlainRunsAreParagraphs ==
    dpc \in {"start", "walk", "docx"} =>
        /\ current_paragraph # 0 <=> (doc_line > 1 /\ IsPlain(doc_line - 1))
        /\ current_paragraph # 0 =>
              /\ current_paragraph = Len(docx_body)
              /\ docx_body[current_paragraph].kind = "para"
        /\ \A b \in 1..Len(docx_body) :
              LET src == docx_body[b].src IN
              IF docx_body[b].kind = "para"
              THEN /\ \A k \in 1..Len(src) : src[k] = src[1] + k - 1
                   /\ MaximalRun(src[1], src[Len(src)])
                   /\ docx_body[b].content =
                         [k \in 1..Len(src) |-> Strip(AnswerLines[src[k]])]
              ELSE Len(src) = 1 /\ ~IsPlain(src[1])
        /\ \A i \in 1..(doc_line - 1) :
              IsPlain(i) =>
                 Cardinality({ b \in 1..Len(docx_body) :
                                 \E k \in 1..Len(docx_body[b].src) :
                                    docx_body[b].src[k] = i }) = 1

\* A paragraph closed by a blank line, then a second paragraph.
C19_Witness ==
    /\ dpc = "docx"
    /\ Len(docx_body) = 2
    /\ docx_body[1].kind = "para" /\ docx_body[1].src = <<1>>
    /\ docx_body[2].kind = "para" /\ docx_body[2].src = <<3>>

\* C17: scrape_url returns None for every URL whose response has a non-HTML
\* content type or a payload of more than 7,000,000 bytes, whichever of the
\* two strategies handles the URL.
C17_NonHtmlAndOversizedRejected ==
    (epc = "done" /\ (~HasHtml(page.content_type) \/ page.size > PAYLOAD_LIMIT))
        => scrape_result.none
====
